---- MODULE Spec2Model ----
(***************************************************************************)
(* Model of mcp_agent/agent.py: one MCPAgent (tool discovery, endpoint     *)
(* selection, tool invocation and the bounded agent loop of run) driven by *)
(* one sequential caller.  The catalog service, the tool endpoints and the *)
(* provider APIs are the environment: every reply they can give is a       *)
(* nondeterministic choice.                                                *)
(***************************************************************************)
EXTENDS Integers, Sequences, FiniteSets, TLC

\* ---------------------------------------------------------------- bounds
\* largest configured max_iterations explored (0..MaxIterations)
MaxIterations == 2
\* number of API calls (run / invoke_tool / discover_tools) one behaviour makes
MaxCalls == 2
\* number of callers that use one agent concurrently
NumThreads == 2

\* ---------------------------------------------------------------- values
OLLAMA == "ollama"
ANTHROPIC == "anthropic"
OPENAI == "openai"
Providers == {OLLAMA, ANTHROPIC, OPENAI}

\* a falsy endpoint (None / absent key / empty string)
NoEndpoint == <<>>
\* the local variable `output` of run before its first assignment
Unbound == [type |-> "unbound", name |-> "", arguments |-> "", text |-> ""]
\* Optional[bool] use_direct argument of invoke_tool
Overrides == {"None", "True", "False"}

\* tool names a caller or a provider may ask for; "ghost" is never advertised
ReqNames == {"lookup_user_data", "direct_tool", "ghost"}

\* one descriptor of the catalog body: ok = FALSE is a descriptor whose
\* 'function' member is not a mapping (tool.get(...).get raises on it),
\* name = "" is a descriptor without a function name
Tool(n, d) == [ok |-> TRUE, name |-> n, direct_endpoint |-> d]
BadTool == [ok |-> FALSE, name |-> "", direct_endpoint |-> NoEndpoint]
ProxyOnly == Tool("lookup_user_data", NoEndpoint)
WithDirect == Tool("direct_tool", <<"direct", "direct_tool">>)
Nameless == Tool("", NoEndpoint)

\* catalog bodies the catalog service may publish
Catalogs ==
    { <<ProxyOnly, WithDirect>>,
      <<WithDirect, Nameless>>,
      <<>>,
      <<ProxyOnly, BadTool, WithDirect>> }

\* f"{mcp_server_url}/tools/{tool_name}"
ProxyEndpoint(tool_name) == <<"proxy", tool_name>>

\* json.dumps / str(e): conversions keep their argument but change its type
JsonDumps(v) == <<"json", v>>
Text(t) == <<"text", t>>

VARIABLES
    config,            \* AgentConfig: provider, max_iterations, use_direct_tool_calls, force_proxy_tools
    catalog,           \* body the catalog service answers GET /tools with
    tools,             \* self.tools
    tool_registry,     \* self.tool_registry
    tools_discovered,  \* self.tools_discovered
    pc,                \* position of the caller: "idle", "loop", "handle", "done"
    verbose,           \* run's verbose argument
    iteration,         \* number of loop iterations of the current run begun so far
    messages,          \* run's local message history
    response,          \* provider response being handled
    output,            \* run's local `output` (assigned only on the OpenAI path)
    outcome,           \* how the last API call ended: returned value or raised error
    inv,               \* record of the last invoke_tool call
    posts,             \* tool requests sent during the current API call, in order
    gets,              \* catalog GETs issued over the agent's lifetime
    llm_requests,      \* provider requests issued by the current run
    decisions,         \* the decision each provider response of the current run denotes
    calls,             \* API calls started so far
    threads,           \* concurrent callers of one agent: position and locals of each
    api_key,           \* config.api_key handed to the constructor ("" is None)
    environ,           \* names of the API-key environment variables that are set
    constructed,       \* "new" before MCPAgent(config), then "ok" or the error raised
    llm_selected,      \* agent_proxy: the module global llm_selected
    agents,            \* agent_proxy: the module global agents (llm -> provider of the agent)
    generated,         \* agent_proxy: the last POST /generate and its response
    got,               \* agent_proxy: the last get_agent call and how it ended
    constructions      \* agent_proxy: MCPAgent objects constructed so far, per llm id

vars == <<config, catalog, tools, tool_registry, tools_discovered, pc, verbose,
          iteration, messages, response, output, outcome, inv, posts, gets,
          llm_requests, decisions, calls, threads, api_key, environ,
          constructed, llm_selected, agents, generated, got, constructions>>

\* state of the concurrent callers, of the constructor and of agent_proxy
extVars == <<threads, api_key, environ, constructed, llm_selected, agents,
             generated, got, constructions>>

agentVars == <<tools, tool_registry, tools_discovered>>

EmptyRegistry == [n \in {} |-> NoEndpoint]
NoResponse == [stop_reason |-> "", content |-> <<>>, output |-> <<>>]
NoOutcome == [kind |-> "none", value |-> <<>>]
NoInvoke == [n |-> 0, tool_name |-> "", use_direct |-> "None", status |-> "none",
             endpoint |-> NoEndpoint, warned |-> FALSE]

\* how a call ends: a returned value or a raised exception
Returned(v) == [kind |-> "returned", value |-> v]
Raised(e) == [kind |-> "raised", value |-> <<"error", e>>]

\* ------------------------------------------------------- discover_tools
Put(reg, name, entry) ==
    [n \in (DOMAIN reg) \cup {name} |-> IF n = name THEN entry ELSE reg[n]]

\* the registry-building loop of discover_tools over the fetched tools
RECURSIVE BuildRegistry(_, _)
BuildRegistry(reg, ts) ==
    IF ts = <<>> THEN [tool_registry |-> reg, raised |-> FALSE]
    ELSE LET tool == Head(ts) IN
         IF ~tool.ok THEN [tool_registry |-> reg, raised |-> TRUE]
         ELSE IF tool.name = "" THEN BuildRegistry(reg, Tail(ts))
         ELSE BuildRegistry(
                 Put(reg, tool.name,
                     [direct_endpoint |-> tool.direct_endpoint,
                      proxy_endpoint |-> ProxyEndpoint(tool.name)]),
                 Tail(ts))

\* discover_tools as a reload: it drops the cache first, whatever the flag
DiscoverTools_Reloads(self, get) ==
    IF get = "fail"
    THEN [tools |-> <<>>, tool_registry |-> EmptyRegistry,
          tools_discovered |-> FALSE, raised |-> TRUE, error |-> "HTTPError",
          gets |-> 1]
    ELSE LET b == BuildRegistry(EmptyRegistry, catalog) IN
         [tools |-> catalog, tool_registry |-> b.tool_registry,
          tools_discovered |-> ~b.raised, raised |-> b.raised,
          error |-> IF b.raised THEN "AttributeError" ELSE "", gets |-> 1]

\* discover_tools that fetches the catalog on every call
DiscoverTools_NoCache(self, get) ==
    IF get = "fail"
    THEN [tools |-> self.tools, tool_registry |-> self.tool_registry,
          tools_discovered |-> self.tools_discovered, raised |-> TRUE,
          error |-> "HTTPError", gets |-> 1]
    ELSE LET b == BuildRegistry(self.tool_registry, catalog) IN
         [tools |-> catalog, tool_registry |-> b.tool_registry,
          tools_discovered |-> ~b.raised, raised |-> b.raised,
          error |-> IF b.raised THEN "AttributeError" ELSE "", gets |-> 1]

\* discover_tools that marks the agent discovered although the GET failed
DiscoverTools_CachesFailure(self, get) ==
    IF self.tools_discovered
    THEN [tools |-> self.tools, tool_registry |-> self.tool_registry,
          tools_discovered |-> TRUE, raised |-> FALSE, error |-> "", gets |-> 0]
    ELSE IF get = "fail"
    THEN [tools |-> self.tools, tool_registry |-> self.tool_registry,
          tools_discovered |-> TRUE, raised |-> TRUE, error |-> "HTTPError",
          gets |-> 1]
    ELSE LET b == BuildRegistry(self.tool_registry, catalog) IN
         [tools |-> catalog, tool_registry |-> b.tool_registry,
          tools_discovered |-> ~b.raised, raised |-> b.raised,
          error |-> IF b.raised THEN "AttributeError" ELSE "", gets |-> 1]

\* discover_tools on agent state self = [tools, tool_registry, tools_discovered];
\* get is the catalog service's reply: "ok" (2xx with the catalog) or "fail"
\* (a transport error, or a non-2xx status that raise_for_status turns into
\* an error: both httpx.HTTPError). error names the exception that escapes:
\* the GET's, or the AttributeError of the registry loop on a malformed entry
DiscoverTools(self, get) ==
    IF self.tools_discovered
    THEN [tools |-> self.tools, tool_registry |-> self.tool_registry,
          tools_discovered |-> TRUE, raised |-> FALSE, error |-> "", gets |-> 0]
    ELSE IF get = "fail"
    THEN [tools |-> self.tools, tool_registry |-> self.tool_registry,
          tools_discovered |-> FALSE, raised |-> TRUE, error |-> "HTTPError",
          gets |-> 1]
    ELSE LET b == BuildRegistry(self.tool_registry, catalog) IN
         [tools |-> catalog, tool_registry |-> b.tool_registry,
          tools_discovered |-> ~b.raised, raised |-> b.raised,
          error |-> IF b.raised THEN "AttributeError" ELSE "", gets |-> 1]

Self == [tools |-> tools, tool_registry |-> tool_registry,
         tools_discovered |-> tools_discovered]

\* AgentConfig values explored: every provider, every iteration budget up to
\* MaxIterations, both defaults of use_direct_tool_calls, some force_proxy_tools
Configs ==
    [provider : Providers,
     max_iterations : 0..MaxIterations,
     use_direct_tool_calls : BOOLEAN,
     force_proxy_tools : {{}, {"direct_tool"}, {"lookup_user_data", "direct_tool"}}]

\* ids of the concurrent callers
Threads == 1..NumThreads
\* a caller that has not called yet: pc is its position, op the API call it
\* makes, ret where its discover_tools returns to, i the index of the registry
\* loop, fetched the list that loop iterates, wrote whether it stored the
\* cache, looked / seen the registry its invoke_tool lookup observed;
\* messages, response and n are the locals of its run (history, last provider
\* response, iterations completed) and result is what its run returned
NoResult == [kind |-> "none", value |-> <<>>]
IdleThread == [pc |-> "idle", op |-> "", ret |-> "", i |-> 0, fetched |-> <<>>,
               wrote |-> FALSE, looked |-> FALSE, seen |-> EmptyRegistry,
               messages |-> <<>>, response |-> NoResponse, n |-> 0,
               result |-> NoResult]
\* agent_proxy before the first POST /generate was answered
NoGenerate == [llm |-> -1, status |-> 0, llm_used |-> -1, ran |-> ""]
EmptyAgents == [k \in {} |-> ""]
\* agent_proxy before the first get_agent call
NoGot == [llm |-> -1, raised |-> FALSE, constructed |-> FALSE, provider |-> ""]
NoConstructions == [k \in 0..2 |-> 0]

\* the fields MCPAgent.__init__ sets, the caller's locals and the history
\* variables, for a config of cs and a catalog of cats
InitAgent(cs, cats) ==
    /\ config \in cs
    /\ catalog \in cats
    /\ tools = <<>>
    /\ tool_registry = EmptyRegistry
    /\ tools_discovered = FALSE
    /\ pc = "idle"
    /\ verbose = FALSE
    /\ iteration = 0
    /\ messages = <<>>
    /\ response = NoResponse
    /\ output = Unbound
    /\ outcome = NoOutcome
    /\ inv = NoInvoke
    /\ posts = <<>>
    /\ gets = 0
    /\ llm_requests = 0
    /\ decisions = <<>>
    /\ calls = 0

\* the state after MCPAgent(config) succeeded (the key came with the config),
\* for a config of cs and a catalog of cats; no concurrent caller, no proxy
InitWith(cs, cats) ==
    /\ InitAgent(cs, cats)
    /\ threads = [t \in Threads |-> IdleThread]
    /\ api_key = "sk"
    /\ environ = {}
    /\ constructed = "ok"
    /\ llm_selected = 1
    /\ agents = EmptyAgents
    /\ generated = NoGenerate
    /\ got = NoGot
    /\ constructions = NoConstructions

CanCall == pc \in {"idle", "done"} /\ calls < MaxCalls

\* a caller awaits agent.discover_tools()
DiscoverCall ==
    /\ CanCall
    /\ \E get \in {"ok", "fail"} :
         LET d == DiscoverTools(Self, get) IN
         /\ tools' = d.tools
         /\ tool_registry' = d.tool_registry
         /\ tools_discovered' = d.tools_discovered
         /\ gets' = gets + d.gets
         /\ outcome' = IF d.raised THEN Raised(d.error)
                       ELSE Returned(<<"tools", d.tools>>)
    /\ pc' = "done"
    /\ calls' = calls + 1
    /\ posts' = <<>>
    /\ UNCHANGED <<config, catalog, extVars, verbose, iteration, messages, response,
                   output, inv, llm_requests, decisions>>

\* ---------------------------------------------------------- invoke_tool
\* replies of a tool endpoint to the POST: a 2xx JSON body, an HTTP error
\* status (httpx.HTTPStatusError), or a transport failure / timeout
PostReplies == {"ok", "http_error", "transport"}
PostStatus(post) ==
    CASE post = "ok" -> "ok"
      [] post = "http_error" -> "HTTPStatusError"
      [] OTHER -> "TransportError"

\* the JSON body a tool endpoint answers with
ToolResult(tool_name) == <<"result", tool_name>>

\* EffectiveUseDirect without the force_proxy_tools check
EffectiveUseDirect_NoForce(tool_name, use_direct) ==
    IF use_direct = "None" THEN config.use_direct_tool_calls ELSE use_direct = "True"

\* EffectiveUseDirect written `use_direct or default`: an explicit False is lost
EffectiveUseDirect_FalsyOverride(tool_name, use_direct) ==
    LET preferred == use_direct = "True" \/ config.use_direct_tool_calls
    IN IF tool_name \in config.force_proxy_tools THEN FALSE ELSE preferred

\* lines 131-138: the per-call override if supplied, else the config default;
\* a tool of force_proxy_tools is pinned to the proxy
EffectiveUseDirect(tool_name, use_direct) ==
    LET preferred == IF use_direct = "None" THEN config.use_direct_tool_calls
                     ELSE use_direct = "True"
    IN IF tool_name \in config.force_proxy_tools THEN FALSE ELSE preferred

\* ChooseEndpoint without the fallback to the proxy endpoint
ChooseEndpoint_NoFallback(tool_info, use_direct) ==
    IF use_direct
    THEN [endpoint |-> tool_info.direct_endpoint, warned |-> FALSE]
    ELSE [endpoint |-> tool_info.proxy_endpoint, warned |-> FALSE]

\* lines 143-155: endpoint and call type for a registry entry
ChooseEndpoint(tool_info, use_direct) ==
    IF use_direct
    THEN IF tool_info.direct_endpoint = NoEndpoint
         THEN [endpoint |-> tool_info.proxy_endpoint, warned |-> TRUE]
         ELSE [endpoint |-> tool_info.direct_endpoint, warned |-> FALSE]
    ELSE [endpoint |-> tool_info.proxy_endpoint, warned |-> FALSE]

\* lines 124-128 and 140: the registry entry of a known tool
NoToolInfo == [direct_endpoint |-> NoEndpoint, proxy_endpoint |-> NoEndpoint]
\* Lookup that routes a name missing from the registry to the proxy
Lookup_DefaultToProxy(registry, tool_name) ==
    IF tool_name \in DOMAIN registry
    THEN [known |-> TRUE, tool_info |-> registry[tool_name]]
    ELSE [known |-> TRUE,
          tool_info |-> [direct_endpoint |-> NoEndpoint,
                         proxy_endpoint |-> ProxyEndpoint(tool_name)]]

Lookup(registry, tool_name) ==
    IF tool_name \in DOMAIN registry
    THEN [known |-> TRUE, tool_info |-> registry[tool_name]]
    ELSE [known |-> FALSE, tool_info |-> NoToolInfo]

\* invoke_tool(tool_name, tool_input, use_direct) on agent state self; get and
\* post are the replies of the catalog service and of the tool endpoint
InvokeTool(self, tool_name, use_direct, get, post) ==
    LET d == IF ~self.tools_discovered THEN DiscoverTools(self, get)
             ELSE [tools |-> self.tools, tool_registry |-> self.tool_registry,
                   tools_discovered |-> TRUE, raised |-> FALSE, gets |-> 0]
        base == [tools |-> d.tools, tool_registry |-> d.tool_registry,
                 tools_discovered |-> d.tools_discovered, gets |-> d.gets,
                 tool_name |-> tool_name, use_direct |-> use_direct]
        none == [endpoint |-> NoEndpoint, warned |-> FALSE, sent |-> FALSE,
                 result |-> <<>>]
    IN IF d.raised
       THEN base @@ none @@ [status |-> "DiscoveryError"]
       ELSE IF ~Lookup(d.tool_registry, tool_name).known
       THEN base @@ none @@ [status |-> "UnknownTool"]
       ELSE LET c == ChooseEndpoint(Lookup(d.tool_registry, tool_name).tool_info,
                                    EffectiveUseDirect(tool_name, use_direct))
            IN base @@ [endpoint |-> c.endpoint, warned |-> c.warned, sent |-> TRUE,
                        result |-> IF post = "ok" THEN ToolResult(tool_name) ELSE <<>>,
                        status |-> PostStatus(post)]

\* the record kept of an invoke_tool call
InvRecord(r) ==
    [n |-> inv.n + 1, tool_name |-> r.tool_name, use_direct |-> r.use_direct,
     status |-> r.status, endpoint |-> r.endpoint, warned |-> r.warned]

\* the record kept of the POST of an invoke_tool call
PostRecord(r) == [endpoint |-> r.endpoint, status |-> r.status]

\* a caller awaits agent.invoke_tool(tool_name, tool_input, use_direct)
InvokeCall(tool_name, use_direct) ==
    /\ CanCall
    /\ \E get \in {"ok", "fail"}, post \in PostReplies :
         LET r == InvokeTool(Self, tool_name, use_direct, get, post) IN
         /\ tools' = r.tools
         /\ tool_registry' = r.tool_registry
         /\ tools_discovered' = r.tools_discovered
         /\ gets' = gets + r.gets
         /\ inv' = InvRecord(r)
         /\ posts' = IF r.sent THEN <<PostRecord(r)>> ELSE <<>>
         /\ outcome' = IF r.status = "ok" THEN Returned(r.result) ELSE Raised(r.status)
    /\ pc' = "done"
    /\ calls' = calls + 1
    /\ UNCHANGED <<config, catalog, extVars, verbose, iteration, messages, response,
                   output, llm_requests, decisions>>

\* ------------------------------------------------------ provider replies
TextBlock(t) == [type |-> "text", text |-> t, name |-> "", id |-> ""]
ToolUseBlock(n, i) == [type |-> "tool_use", text |-> "", name |-> n, id |-> i]

\* an Anthropic message: stop reason and content list
Message(sr, c) == [stop_reason |-> sr, content |-> c, output |-> <<>>]

\* replies of the Anthropic API: a tool request with one block, with a text
\* block first, with two tool-use blocks, or with no tool-use block at all; a
\* normal completion with one text block, two, a tool-use block first, or no
\* text block; and a reply cut short
AnthropicResponses ==
    { Message("tool_use", <<ToolUseBlock("lookup_user_data", "id1")>>),
      Message("tool_use", <<ToolUseBlock("direct_tool", "id1")>>),
      Message("tool_use", <<ToolUseBlock("ghost", "id1")>>),
      Message("tool_use", <<TextBlock("A1"), ToolUseBlock("lookup_user_data", "id1")>>),
      Message("tool_use", <<ToolUseBlock("lookup_user_data", "id1"),
                            ToolUseBlock("direct_tool", "id2")>>),
      Message("tool_use", <<TextBlock("A1")>>),
      Message("end_turn", <<TextBlock("A1")>>),
      Message("end_turn", <<TextBlock("A1"), TextBlock("A2")>>),
      Message("end_turn", <<ToolUseBlock("lookup_user_data", "id1"), TextBlock("A2")>>),
      Message("end_turn", <<>>),
      Message("max_tokens", <<TextBlock("A1")>>) }

\* output items of an OpenAI response; arguments is "dict" (already a
\* mapping), "json" (a JSON-encoded string) or "badjson" (a string that
\* json.loads rejects)
FunctionItem(n, a) == [type |-> "function", name |-> n, arguments |-> a, text |-> ""]
MessageItem(t) == [type |-> "message", name |-> "", arguments |-> "", text |-> t]

Outputs ==
    { <<>>,
      <<MessageItem("A1")>>,
      <<MessageItem("A1"), FunctionItem("lookup_user_data", "dict")>>,
      <<FunctionItem("lookup_user_data", "dict")>>,
      <<FunctionItem("lookup_user_data", "json")>>,
      <<FunctionItem("direct_tool", "json")>>,
      <<FunctionItem("ghost", "dict")>>,
      <<FunctionItem("lookup_user_data", "badjson")>>,
      <<FunctionItem("direct_tool", "dict"), MessageItem("A2")>> }

OpenAIResponses ==
    { [stop_reason |-> "", content |-> <<>>, output |-> o] : o \in Outputs }

\* next((block for block in content if block.type == t), None)
HasBlock(content, t) == \E i \in 1..Len(content) : content[i].type = t
\* FirstBlock that takes the last block of the type
FirstBlock_Last(content, t) ==
    content[CHOOSE i \in 1..Len(content) :
              /\ content[i].type = t
              /\ \A j \in (i + 1)..Len(content) : content[j].type # t]

\* next((block for block in content if block.type == t), None), when there
\* is such a block
FirstBlock(content, t) ==
    content[CHOOSE i \in 1..Len(content) :
              /\ content[i].type = t
              /\ \A j \in 1..(i - 1) : content[j].type # t]

\* the canonical decision a provider response denotes: for Anthropic by stop
\* reason and first matching block (lines 339-345, 384-390), for OpenAI by the
\* type of the first output item (lines 411-417, 460-462)
ToolCall(n) == [kind |-> "ToolCall", name |-> n, text |-> ""]
FinalAnswer(t) == [kind |-> "FinalAnswer", name |-> "", text |-> t]
Unrecognized == [kind |-> "Unrecognized", name |-> "", text |-> ""]
Decision(r) ==
    IF config.provider = ANTHROPIC
    THEN IF r.stop_reason = "tool_use" /\ HasBlock(r.content, "tool_use")
         THEN ToolCall(FirstBlock(r.content, "tool_use").name)
         ELSE IF r.stop_reason = "end_turn" /\ HasBlock(r.content, "text")
         THEN FinalAnswer(FirstBlock(r.content, "text").text)
         ELSE Unrecognized
    ELSE IF r.output = <<>> THEN Unrecognized
         ELSE IF r.output[1].type = "function" THEN ToolCall(r.output[1].name)
         ELSE FinalAnswer(r.output[1].text)

\* ------------------------------------------------------------------ run
UserIds == {"u1"}
Queries == {"get car details"}

\* userid + " " + user_message, as the first message of the history
UserMessage(userid, user_message) ==
    [role |-> "user", content |-> <<"text", userid, " ", user_message>>]
AssistantMessage(content) ==
    [role |-> "assistant", content |-> <<"blocks", content>>]
ToolResultMessage(tool_use_id, result) ==
    [role |-> "user", content |-> <<"tool_result", tool_use_id, JsonDumps(result)>>]
\* f"Tool failed: {str(e)}"
ToolFailedMessage(e) ==
    [role |-> "user", content |-> <<"text", "Tool failed: ", e>>]

MaxIterationsReached == Text("Max iterations reached")

\* run(userid, user_message, verbose) up to the loop: lines 305-316
RunCall(userid, user_message, v) ==
    /\ CanCall
    /\ calls' = calls + 1
    /\ verbose' = v
    /\ posts' = <<>>
    /\ llm_requests' = 0
    /\ decisions' = <<>>
    /\ iteration' = 0
    /\ response' = NoResponse
    /\ output' = Unbound
    /\ \E get \in {"ok", "fail"} :
         LET d == IF tools = <<>> THEN DiscoverTools(Self, get)
                  ELSE [tools |-> tools, tool_registry |-> tool_registry,
                        tools_discovered |-> tools_discovered,
                        raised |-> FALSE, gets |-> 0]
         IN /\ tools' = d.tools
            /\ tool_registry' = d.tool_registry
            /\ tools_discovered' = d.tools_discovered
            /\ gets' = gets + d.gets
            /\ IF d.raised
               THEN /\ pc' = "done"
                    /\ outcome' = Raised("DiscoveryError")
                    /\ messages' = <<>>
               ELSE /\ pc' = "loop"
                    /\ outcome' = NoOutcome
                    /\ messages' = <<UserMessage(userid, user_message)>>
    /\ UNCHANGED <<config, catalog, extVars, inv>>

InLoop == pc = "loop" /\ iteration < config.max_iterations

\* one provider request of an iteration is answered: lines 318-328, 395-400
CallProvider(r) ==
    /\ InLoop
    /\ \/ config.provider = ANTHROPIC /\ r \in AnthropicResponses
       \/ config.provider = OPENAI /\ r \in OpenAIResponses
    /\ iteration' = iteration + 1
    /\ llm_requests' = llm_requests + 1
    /\ response' = r
    /\ decisions' = Append(decisions, Decision(r))
    /\ pc' = "handle"
    /\ UNCHANGED <<config, catalog, extVars, agentVars, verbose, messages, output,
                   outcome, inv, posts, gets, calls>>

\* ProviderFails with the request wrapped in the tool-failure recovery
ProviderFails_Recovered ==
    /\ pc = "loop" /\ iteration < config.max_iterations
    /\ config.provider \in {ANTHROPIC, OPENAI}
    /\ iteration' = iteration + 1
    /\ llm_requests' = llm_requests + 1
    /\ messages' = Append(messages, ToolFailedMessage("ProviderError"))
    /\ UNCHANGED <<config, catalog, extVars, agentVars, pc, verbose, response, outcome,
                   output, inv, posts, gets, decisions, calls>>

\* the provider request raises (API error, timeout): nothing in run catches it
ProviderFails ==
    /\ InLoop
    /\ config.provider \in {ANTHROPIC, OPENAI}
    /\ iteration' = iteration + 1
    /\ llm_requests' = llm_requests + 1
    /\ pc' = "done"
    /\ outcome' = Raised("ProviderError")
    /\ UNCHANGED <<config, catalog, extVars, agentVars, verbose, messages, response,
                   output, inv, posts, gets, decisions, calls>>

\* with provider "ollama" neither branch of the loop body matches: line 323, 395
OllamaIteration ==
    /\ InLoop
    /\ config.provider = OLLAMA
    /\ iteration' = iteration + 1
    /\ UNCHANGED <<config, catalog, extVars, agentVars, pc, verbose, messages, response,
                   output, outcome, inv, posts, gets, llm_requests, decisions,
                   calls>>

\* Invoked whose request is sent a second time when it failed
Invoked_Retries(r) ==
    /\ tools' = r.tools
    /\ tool_registry' = r.tool_registry
    /\ tools_discovered' = r.tools_discovered
    /\ gets' = gets + r.gets
    /\ inv' = InvRecord(r)
    /\ posts' = IF ~r.sent THEN posts
                ELSE IF r.status = "ok" THEN Append(posts, PostRecord(r))
                ELSE posts \o <<PostRecord(r), PostRecord(r)>>

\* the effect on the agent and on the request log of one invoke_tool call r
Invoked(r) ==
    /\ tools' = r.tools
    /\ tool_registry' = r.tool_registry
    /\ tools_discovered' = r.tools_discovered
    /\ gets' = gets + r.gets
    /\ inv' = InvRecord(r)
    /\ posts' = IF r.sent THEN Append(posts, PostRecord(r)) ELSE posts

NotInvoked == UNCHANGED <<agentVars, gets, inv, posts>>

\* AnthropicToolMessages whose except clause records nothing
AnthropicToolMessages_Silent(msgs, content, tool_use_block, r) ==
    IF r.status = "ok"
    THEN msgs \o <<AssistantMessage(content),
                   ToolResultMessage(tool_use_block.id, r.result)>>
    ELSE msgs

\* AnthropicToolMessages that starts a new history with the tool messages
AnthropicToolMessages_Truncating(msgs, content, tool_use_block, r) ==
    IF r.status = "ok"
    THEN <<AssistantMessage(content),
           ToolResultMessage(tool_use_block.id, r.result)>>
    ELSE Append(msgs, ToolFailedMessage(r.status))

\* lines 350-382: the history after the try/except around invoke_tool
AnthropicToolMessages(msgs, content, tool_use_block, r) ==
    IF r.status = "ok"
    THEN msgs \o <<AssistantMessage(content),
                   ToolResultMessage(tool_use_block.id, r.result)>>
    ELSE Append(msgs, ToolFailedMessage(r.status))

\* lines 422-458: the history after the try/except around invoke_tool.
\* After a successful invoke_tool the assistant message is built from
\* tool_call, a name this branch never binds: building it raises inside the
\* try and the except clause appends the failure message instead.
OpenAIToolMessages(msgs, r) ==
    Append(msgs, ToolFailedMessage(IF r.status = "ok" THEN "UnboundLocalError"
                                   ELSE r.status))

\* HandleAnthropic that appends the assistant content of a response it does
\* not recognise
HandleAnthropic_RecordsUnrecognized ==
    /\ pc = "handle"
    /\ config.provider = ANTHROPIC
    /\ IF response.stop_reason = "tool_use" /\ HasBlock(response.content, "tool_use")
       THEN LET tool_use_block == FirstBlock(response.content, "tool_use") IN
            \E get \in {"ok", "fail"}, post \in PostReplies :
              LET r == InvokeTool(Self, tool_use_block.name, "None", get, post) IN
              /\ Invoked(r)
              /\ messages' = AnthropicToolMessages(messages, response.content,
                                                    tool_use_block, r)
              /\ pc' = "loop"
              /\ UNCHANGED outcome
       ELSE IF response.stop_reason = "end_turn" /\ HasBlock(response.content, "text")
       THEN /\ pc' = "done"
            /\ outcome' = Returned(Text(FirstBlock(response.content, "text").text))
            /\ NotInvoked
            /\ UNCHANGED messages
       ELSE /\ pc' = "loop"
            /\ NotInvoked
            /\ messages' = Append(messages, AssistantMessage(response.content))
            /\ UNCHANGED outcome
    /\ UNCHANGED <<config, catalog, extVars, verbose, iteration, response, output,
                   llm_requests, decisions, calls>>

\* the Anthropic branch of the loop body after the response: lines 339-393
HandleAnthropic ==
    /\ pc = "handle"
    /\ config.provider = ANTHROPIC
    /\ IF response.stop_reason = "tool_use" /\ HasBlock(response.content, "tool_use")
       THEN LET tool_use_block == FirstBlock(response.content, "tool_use") IN
            \E get \in {"ok", "fail"}, post \in PostReplies :
              LET r == InvokeTool(Self, tool_use_block.name, "None", get, post) IN
              /\ Invoked(r)
              /\ messages' = AnthropicToolMessages(messages, response.content,
                                                    tool_use_block, r)
              /\ pc' = "loop"
              /\ UNCHANGED outcome
       ELSE IF response.stop_reason = "end_turn" /\ HasBlock(response.content, "text")
       THEN /\ pc' = "done"
            /\ outcome' = Returned(Text(FirstBlock(response.content, "text").text))
            /\ NotInvoked
            /\ UNCHANGED messages
       ELSE /\ pc' = "loop"
            /\ NotInvoked
            /\ UNCHANGED <<messages, outcome>>
    /\ UNCHANGED <<config, catalog, extVars, verbose, iteration, response, output,
                   llm_requests, decisions, calls>>

\* the OpenAI branch of the loop body after the response: lines 410-458
HandleOpenAI ==
    /\ pc = "handle"
    /\ config.provider = OPENAI
    /\ IF response.output = <<>>
       THEN /\ pc' = "done"
            /\ outcome' = Raised("IndexError")
            /\ NotInvoked
            /\ UNCHANGED <<messages, output>>
       ELSE /\ output' = response.output[1]
            /\ IF output'.type = "function"
               THEN IF output'.arguments = "badjson"
                    THEN /\ pc' = "done"
                         /\ outcome' = Raised("JSONDecodeError")
                         /\ NotInvoked
                         /\ UNCHANGED messages
                    ELSE \E get \in {"ok", "fail"}, post \in PostReplies :
                           LET r == InvokeTool(Self, output'.name, "None", get, post) IN
                           /\ Invoked(r)
                           /\ messages' = OpenAIToolMessages(messages, r)
                           /\ pc' = "loop"
                           /\ UNCHANGED outcome
               ELSE /\ pc' = "loop"
                    /\ NotInvoked
                    /\ UNCHANGED <<messages, outcome>>
    /\ UNCHANGED <<config, catalog, extVars, verbose, iteration, response,
                   llm_requests, decisions, calls>>

\* replies of the Ollama chat endpoint: a message with or without tool calls
OllamaReplies ==
    { [tool_calls |-> <<>>, content |-> "A1"],
      [tool_calls |-> <<"lookup_user_data">>, content |-> ""],
      [tool_calls |-> <<"ghost", "direct_tool">>, content |-> "A2"] }

\* lines 466-501, the elif of `if verbose` inside the else clause of the loop
OllamaBranch ==
    \/ /\ llm_requests' = llm_requests + 1
       /\ outcome' = Raised("ProviderError")
       /\ NotInvoked
    \/ \E reply \in OllamaReplies :
         IF reply.tool_calls # <<>>
         THEN \E get \in {"ok", "fail"}, post \in PostReplies :
                LET r == InvokeTool(Self, reply.tool_calls[1], "None", get, post) IN
                /\ Invoked(r)
                /\ IF r.status = "ok"
                   THEN /\ llm_requests' = llm_requests + 2
                        /\ \/ outcome' = Raised("ProviderError")
                           \/ \E final \in OllamaReplies :
                                outcome' = Returned(Text(final.content))
                   ELSE /\ llm_requests' = llm_requests + 1
                        /\ outcome' = Returned(<<"text", "Tool execution failed: ", r.status>>)
         ELSE /\ llm_requests' = llm_requests + 1
              /\ outcome' = Returned(Text(reply.content))
              /\ NotInvoked

\* the loop is exhausted and its else clause runs, lines 460-503, for a run
\* whose verbose argument is v
LoopElseWith(v) ==
    /\ pc = "loop"
    /\ iteration >= config.max_iterations
    /\ pc' = "done"
    /\ IF output = Unbound
       THEN /\ outcome' = Raised("UnboundLocalError")
            /\ NotInvoked
            /\ UNCHANGED llm_requests
       ELSE IF v
       THEN /\ outcome' = Returned(<<"object", output>>)
            /\ NotInvoked
            /\ UNCHANGED llm_requests
       ELSE IF config.provider = OLLAMA
       THEN OllamaBranch
       ELSE /\ outcome' = Returned(MaxIterationsReached)
            /\ NotInvoked
            /\ UNCHANGED llm_requests
    /\ UNCHANGED <<config, catalog, extVars, verbose, iteration, messages, response,
                   output, decisions, calls>>

\* the loop is exhausted and its else clause runs: lines 460-503
LoopElse == LoopElseWith(verbose)

\* ------------------------------------------------------- specifications
\* the agent loop under the configs the callers of this repository build
\* (agent_proxy.get_agent, whatsapp.create_mcp_agent, examples): any provider,
\* any iteration budget, the default use_direct_tool_calls = True, and the
\* force_proxy_tools knob empty or pinning the tool that has a direct endpoint
RunConfigs ==
    { c \in Configs : /\ c.use_direct_tool_calls
                      /\ c.force_proxy_tools \in {{}, {"direct_tool"}} }

\* the catalogs that make a difference to run: the two tools, no tool at all,
\* and a body whose second descriptor breaks the registry loop
RunCatalogs ==
    { <<ProxyOnly, WithDirect>>, <<>>, <<ProxyOnly, BadTool, WithDirect>> }

Init == InitWith(RunConfigs, RunCatalogs)

Next ==
    \/ \E userid \in UserIds, user_message \in Queries, v \in BOOLEAN :
         RunCall(userid, user_message, v)
    \/ \E r \in AnthropicResponses \cup OpenAIResponses : CallProvider(r)
    \/ ProviderFails
    \/ OllamaIteration
    \/ HandleAnthropic
    \/ HandleOpenAI
    \/ LoopElse

Spec == Init /\ [][Next]_vars

\* the tool API called directly: discover_tools and invoke_tool with every
\* override, under every tool-calling policy (neither operation reads the
\* provider or the iteration budget)
ToolConfigs ==
    { c \in Configs : c.provider = ANTHROPIC /\ c.max_iterations = 0 }

InitTool == InitWith(ToolConfigs, Catalogs)

NextTool ==
    \/ DiscoverCall
    \/ \E tool_name \in ReqNames, use_direct \in Overrides :
         InvokeCall(tool_name, use_direct)

SpecTool == InitTool /\ [][NextTool]_vars

\* ------------------------------------------------- every API call at once
\* a caller evaluates agent.get_available_tools(): the registry's names (with
\* their descriptions), read without a request and without discovery
GetAvailableToolsCall ==
    /\ CanCall
    /\ outcome' = Returned(<<"dict", DOMAIN tool_registry>>)
    /\ pc' = "done"
    /\ calls' = calls + 1
    /\ posts' = <<>>
    /\ UNCHANGED <<config, catalog, extVars, agentVars, gets, verbose, iteration,
                   messages, response, output, inv, llm_requests, decisions>>

\* one Anthropic agent with a budget of one iteration, on which a caller
\* makes any of the four API calls in any order
ApiConfigs ==
    { c \in RunConfigs : /\ c.provider = ANTHROPIC
                         /\ c.max_iterations = 1
                         /\ c.force_proxy_tools = {} }

InitApi == InitWith(ApiConfigs, Catalogs)

NextApi ==
    \/ \E v \in BOOLEAN : RunCall("u1", "get car details", v)
    \/ \E r \in AnthropicResponses : CallProvider(r)
    \/ ProviderFails
    \/ HandleAnthropic
    \/ LoopElse
    \/ DiscoverCall
    \/ \E tool_name \in ReqNames, use_direct \in Overrides :
          InvokeCall(tool_name, use_direct)
    \/ GetAvailableToolsCall

SpecApi == InitApi /\ [][NextApi]_vars

\* ---------------------------------------------------- concurrent callers
\* Several callers use one agent at once: coroutines of one event loop
\* (agent_proxy), or threads that each run their own loop (whatsapp's
\* asyncio.run per request).  Each step below is one read or write of a
\* shared field, so every interleaving of either kind is a behaviour.
SetThread(t, r) == threads' = [threads EXCEPT ![t] = r]

\* what no step of a concurrent caller changes
ThreadFrame ==
    UNCHANGED <<config, catalog, pc, verbose, iteration, messages, response,
                output, outcome, inv, posts, llm_requests, decisions, calls,
                api_key, environ, constructed, llm_selected, agents, generated,
                got, constructions>>

\* a caller starts discover_tools, or run, which discovers first if
\* self.tools is empty
ThreadCall(t, op) ==
    /\ threads[t].pc = "idle"
    /\ ThreadFrame
    /\ SetThread(t, [threads[t] EXCEPT
            !.op = op,
            !.pc = IF op = "run" /\ tools # <<>> THEN "provider" ELSE "check",
            !.ret = IF op = "run" THEN "provider" ELSE "done"])
    /\ UNCHANGED <<agentVars, gets>>

\* discover_tools: `if self.tools_discovered: return self.tools`
ThreadCheck(t) ==
    /\ threads[t].pc = "check"
    /\ ThreadFrame
    /\ SetThread(t, [threads[t] EXCEPT
            !.pc = IF tools_discovered THEN threads[t].ret ELSE "get"])
    /\ UNCHANGED <<agentVars, gets>>

\* ThreadFetch that sets the discovered flag as soon as the list is stored
ThreadFetch_FlagEarly(t, get) ==
    /\ threads[t].pc = "get"
    /\ ThreadFrame
    /\ gets' = gets + 1
    /\ IF get = "fail"
       THEN /\ SetThread(t, [threads[t] EXCEPT !.pc = "failed"])
            /\ UNCHANGED agentVars
       ELSE /\ tools' = catalog
            /\ tools_discovered' = TRUE
            /\ SetThread(t, [threads[t] EXCEPT
                    !.pc = "build", !.fetched = catalog, !.i = 1])
            /\ UNCHANGED tool_registry

\* discover_tools: the awaited GET is answered; a failure raises, a 2xx body
\* is stored in self.tools, which the registry loop then iterates
ThreadFetch(t, get) ==
    /\ threads[t].pc = "get"
    /\ ThreadFrame
    /\ gets' = gets + 1
    /\ IF get = "fail"
       THEN /\ SetThread(t, [threads[t] EXCEPT !.pc = "failed"])
            /\ UNCHANGED agentVars
       ELSE /\ tools' = catalog
            /\ SetThread(t, [threads[t] EXCEPT
                    !.pc = "build", !.fetched = catalog, !.i = 1])
            /\ UNCHANGED <<tool_registry, tools_discovered>>

\* discover_tools: one pass of the registry loop, or, after the last one,
\* `self.tools_discovered = True` and the return
ThreadBuild(t) ==
    /\ threads[t].pc = "build"
    /\ ThreadFrame
    /\ LET th == threads[t] IN
       IF th.i > Len(th.fetched)
       THEN /\ tools_discovered' = TRUE
            /\ SetThread(t, [th EXCEPT !.pc = th.ret, !.wrote = TRUE])
            /\ UNCHANGED <<tools, tool_registry>>
       ELSE LET tool == th.fetched[th.i] IN
            IF ~tool.ok
            THEN /\ SetThread(t, [th EXCEPT !.pc = "failed"])
                 /\ UNCHANGED agentVars
            ELSE /\ tool_registry' =
                      IF tool.name = "" THEN tool_registry
                      ELSE Put(tool_registry, tool.name,
                               [direct_endpoint |-> tool.direct_endpoint,
                                proxy_endpoint |-> ProxyEndpoint(tool.name)])
                 /\ SetThread(t, [th EXCEPT !.i = th.i + 1])
                 /\ UNCHANGED <<tools, tools_discovered>>
    /\ UNCHANGED gets

\* what caller t passes to run, and what the provider answers to the request
\* that carries t's history: a tool request or a final answer
UserIdOf(t) == <<"u", t>>
ToolUseIdOf(t) == <<"toolu", t>>
AnswerOf(t) == <<"A", t>>
ResponseTo(t, tool_call) ==
    IF tool_call
    THEN Message("tool_use", <<ToolUseBlock("direct_tool", ToolUseIdOf(t))>>)
    ELSE Message("end_turn", <<TextBlock(AnswerOf(t))>>)

\* History with one list kept on the agent, that of the first caller
History_Shared(t) == threads[1].messages

\* the list `messages` names in the run of caller t: a local of that call
History(t) == threads[t].messages

\* run: on its first pass the history is created; the provider answers with a
\* final answer (run returns its text) or a tool call (run enters invoke_tool)
ThreadProvider(t, tool_call) ==
    /\ threads[t].pc = "provider"
    /\ ThreadFrame
    /\ LET th == threads[t]
           msgs == IF th.messages = <<>>
                   THEN <<UserMessage(UserIdOf(t), "get car details")>>
                   ELSE History(t)
           resp == ResponseTo(t, tool_call)
       IN IF resp.stop_reason = "tool_use" /\ HasBlock(resp.content, "tool_use")
          THEN SetThread(t, [th EXCEPT !.pc = "invoke", !.messages = msgs,
                                       !.response = resp])
          ELSE SetThread(t, [th EXCEPT
                  !.pc = "done", !.messages = msgs, !.response = resp,
                  !.result = Returned(Text(FirstBlock(resp.content, "text").text))])
    /\ UNCHANGED <<agentVars, gets>>

\* invoke_tool: `if not self.tools_discovered: await self.discover_tools()`
ThreadInvoke(t) ==
    /\ threads[t].pc = "invoke"
    /\ ThreadFrame
    /\ SetThread(t, [threads[t] EXCEPT
            !.pc = IF tools_discovered THEN "lookup" ELSE "check",
            !.ret = "lookup"])
    /\ UNCHANGED <<agentVars, gets>>

\* invoke_tool: the lookup `tool_name not in self.tool_registry` /
\* `self.tool_registry[tool_name]` reads the registry as it is now and the
\* POST is answered; run appends the tool messages to its history and goes
\* on to the next iteration, or leaves the exhausted loop with `output`
\* unbound
ThreadLookup(t, post) ==
    /\ threads[t].pc = "lookup"
    /\ ThreadFrame
    /\ LET th == threads[t]
           tool_use_block == FirstBlock(th.response.content, "tool_use")
           r == InvokeTool(Self, tool_use_block.name, "None", "ok", post)
           more == th.n + 1 < config.max_iterations
       IN SetThread(t, [th EXCEPT
              !.looked = TRUE, !.seen = tool_registry,
              !.messages = AnthropicToolMessages(History(t), th.response.content,
                                                 tool_use_block, r),
              !.n = th.n + 1,
              !.pc = IF more THEN "provider" ELSE "done",
              !.result = IF more THEN th.result
                         ELSE Raised("UnboundLocalError")])
    /\ UNCHANGED <<agentVars, gets>>

ConcConfigs ==
    { c \in Configs : /\ c.provider = ANTHROPIC
                      /\ c.max_iterations \in 1..2
                      /\ c.use_direct_tool_calls
                      /\ c.force_proxy_tools = {} }

InitConc == InitWith(ConcConfigs, Catalogs)

NextConc ==
    \/ \E t \in Threads, op \in {"discover_tools", "run"} :
          ThreadCall(t, op)
    \/ \E t \in Threads : ThreadCheck(t)
    \/ \E t \in Threads, get \in {"ok", "fail"} : ThreadFetch(t, get)
    \/ \E t \in Threads : ThreadBuild(t)
    \/ \E t \in Threads, tool_call \in BOOLEAN :
          ThreadProvider(t, tool_call)
    \/ \E t \in Threads : ThreadInvoke(t)
    \/ \E t \in Threads, post \in PostReplies : ThreadLookup(t, post)

SpecConc == InitConc /\ [][NextConc]_vars

\* ------------------------------------------------------------ constructor
\* the environment variable __init__ falls back to for a provider's key
CredentialVar(provider) ==
    IF provider = ANTHROPIC THEN "ANTHROPIC_API_KEY" ELSE "OPENAI_API_KEY"
CredentialVars == {"ANTHROPIC_API_KEY", "OPENAI_API_KEY"}

\* MCPAgentInit that builds the provider client without checking the key
MCPAgentInit_NoKeyCheck(cfg, key, env) ==
    IF cfg.provider \in {OLLAMA, ANTHROPIC, OPENAI} THEN "ok" ELSE "ValueError"

\* how MCPAgent.__init__ ends for config cfg with cfg.api_key = key ("" is
\* None) under the environment env: "ok", or the ValueError it raises
MCPAgentInit(cfg, key, env) ==
    IF cfg.provider = OLLAMA THEN "ok"
    ELSE IF cfg.provider \in {ANTHROPIC, OPENAI}
    THEN IF key # "" \/ CredentialVar(cfg.provider) \in env
         THEN "ok" ELSE "ValueError"
    ELSE "ValueError"

\* a caller evaluates MCPAgent(config): the fields are set, then the provider
\* is set up or the constructor raises; nothing is sent
Construct ==
    /\ constructed = "new"
    /\ constructed' = MCPAgentInit(config, api_key, environ)
    /\ tools' = <<>>
    /\ tool_registry' = EmptyRegistry
    /\ tools_discovered' = FALSE
    /\ UNCHANGED <<config, catalog, pc, verbose, iteration, messages, response,
                   output, outcome, inv, posts, gets, llm_requests, decisions,
                   calls, threads, api_key, environ, llm_selected, agents,
                   generated, got, constructions>>

\* the API calls a caller can make on the object the constructor returned
AgentDiscover == constructed = "ok" /\ DiscoverCall
AgentInvoke == constructed = "ok" /\ \E tool_name \in ReqNames : InvokeCall(tool_name, "None")
AgentRun == constructed = "ok" /\ \E v \in BOOLEAN : RunCall("u1", "get car details", v)
AgentLoopElse == constructed = "ok" /\ LoopElse

\* configs handed to the constructor: every provider and an unknown one
CtorConfigs ==
    [provider : Providers \cup {"mistral"},
     max_iterations : {0},
     use_direct_tool_calls : {TRUE},
     force_proxy_tools : {{}}]
CtorCatalogs == { <<ProxyOnly, WithDirect>>, <<>> }

InitCtor ==
    /\ InitAgent(CtorConfigs, CtorCatalogs)
    /\ threads = [t \in Threads |-> IdleThread]
    /\ api_key \in {"", "sk"}
    /\ environ \in SUBSET CredentialVars
    /\ constructed = "new"
    /\ llm_selected = 1
    /\ agents = EmptyAgents
    /\ generated = NoGenerate
    /\ got = NoGot
    /\ constructions = NoConstructions

NextCtor ==
    \/ Construct
    \/ AgentDiscover
    \/ AgentInvoke
    \/ AgentRun
    \/ AgentLoopElse

SpecCtor == InitCtor /\ [][NextCtor]_vars

\* ------------------------------------------------------------ agent_proxy
\* LLM_MAP: provider and key variable of each llm id
LLM_MAP ==
    [k \in 0..2 |->
       CASE k = 0 -> [provider |-> OLLAMA, api_key_env |-> "OLLAMA_API_KEY"]
         [] k = 1 -> [provider |-> ANTHROPIC, api_key_env |-> "ANTHROPIC_API_KEY"]
         [] OTHER -> [provider |-> OPENAI, api_key_env |-> "OPENAI_API_KEY"]]

\* values of llm_selected: config.DEFAULT_LLM_PROVIDER is any integer of the
\* environment, main() only validates a command-line argument
LlmSelections == 0..3

\* JSON bodies of POST /generate: the llm member is absent (<<>>) or an id
Bodies == { [llm |-> <<>>], [llm |-> <<0>>], [llm |-> <<1>>], [llm |-> <<2>>] }
\* GenerateRequest: `llm: int = 1`
GenerateRequest(body) == [llm |-> IF body.llm = <<>> THEN 1 ELSE body.llm[1]]

\* get_agent without the `if llm in agents` check
GetAgent_NoCacheCheck(cache, llm, env) ==
    IF llm \notin DOMAIN LLM_MAP
    THEN [raised |-> TRUE, constructed |-> FALSE, agents |-> cache, provider |-> ""]
    ELSE LET m == LLM_MAP[llm]
             key == IF m.provider # OLLAMA /\ m.api_key_env \in env THEN "sk" ELSE ""
             cfg == [provider |-> m.provider]
         IN IF m.provider # OLLAMA /\ key = ""
            THEN [raised |-> TRUE, constructed |-> FALSE, agents |-> cache,
                  provider |-> ""]
            ELSE IF MCPAgentInit(cfg, key, env) # "ok"
            THEN [raised |-> TRUE, constructed |-> TRUE, agents |-> cache,
                  provider |-> ""]
            ELSE [raised |-> FALSE, constructed |-> TRUE,
                  agents |-> [k \in (DOMAIN cache) \cup {llm} |->
                                IF k = llm THEN m.provider ELSE cache[k]],
                  provider |-> m.provider]

\* get_agent(llm) on the cache: raised (ValueError), whether MCPAgent(...) was
\* evaluated, the agent's provider and the cache afterwards
GetAgent(cache, llm, env) ==
    IF llm \notin DOMAIN LLM_MAP
    THEN [raised |-> TRUE, constructed |-> FALSE, agents |-> cache, provider |-> ""]
    ELSE IF llm \in DOMAIN cache
    THEN [raised |-> FALSE, constructed |-> FALSE, agents |-> cache,
          provider |-> cache[llm]]
    ELSE LET m == LLM_MAP[llm]
             key == IF m.provider # OLLAMA /\ m.api_key_env \in env THEN "sk" ELSE ""
             cfg == [provider |-> m.provider]
         IN IF m.provider # OLLAMA /\ key = ""
            THEN [raised |-> TRUE, constructed |-> FALSE, agents |-> cache,
                  provider |-> ""]
            ELSE IF MCPAgentInit(cfg, key, env) # "ok"
            THEN [raised |-> TRUE, constructed |-> TRUE, agents |-> cache,
                  provider |-> ""]
            ELSE [raised |-> FALSE, constructed |-> TRUE,
                  agents |-> [k \in (DOMAIN cache) \cup {llm} |->
                                IF k = llm THEN m.provider ELSE cache[k]],
                  provider |-> m.provider]

\* the record of a get_agent(llm) call that ended as g, and the count of
\* constructed agents after it
GotRecord(llm, g) ==
    [llm |-> llm, raised |-> g.raised, constructed |-> g.constructed,
     provider |-> g.provider]
Constructions(llm, g) ==
    IF g.constructed
    THEN [constructions EXCEPT ![llm] = constructions[llm] + 1]
    ELSE constructions

\* how agent.run ends for the handler: it returns, raises a ValueError
\* (json.JSONDecodeError is one), or raises anything else
RunEnds == {"returned", "ValueError", "Exception"}

\* POST /generate with this body; run is how the agent's run ends
Generate(body, run) ==
    /\ calls < MaxCalls
    /\ LET request == GenerateRequest(body)
           g == GetAgent(agents, llm_selected, environ)
       IN /\ got' = GotRecord(llm_selected, g)
          /\ constructions' = Constructions(llm_selected, g)
          /\ IF g.raised
             THEN /\ generated' = [llm |-> request.llm, status |-> 400,
                                   llm_used |-> -1, ran |-> ""]
                  /\ UNCHANGED agents
             ELSE /\ agents' = g.agents
                  /\ generated' =
                       [llm |-> request.llm,
                        status |-> CASE run = "returned" -> 200
                                     [] run = "ValueError" -> 400
                                     [] OTHER -> 500,
                        llm_used |-> IF run = "returned" THEN llm_selected ELSE -1,
                        ran |-> g.provider]
    /\ calls' = calls + 1
    /\ UNCHANGED <<config, catalog, agentVars, pc, verbose, iteration, messages,
                   response, output, outcome, inv, posts, gets, llm_requests,
                   decisions, threads, api_key, environ, constructed,
                   llm_selected>>

\* llm arguments of get_agent: the three ids and two integers outside them
LlmArguments == -1..3

\* what a step of agent_proxy that is not POST /generate leaves alone
ProxyFrame ==
    UNCHANGED <<config, catalog, agentVars, pc, verbose, iteration, messages,
                response, output, outcome, inv, posts, gets, llm_requests,
                decisions, threads, api_key, constructed, llm_selected,
                generated>>

\* a caller evaluates get_agent(llm)
GetAgentCall(llm) ==
    /\ calls < MaxCalls
    /\ LET g == GetAgent(agents, llm, environ) IN
       /\ agents' = g.agents
       /\ got' = GotRecord(llm, g)
       /\ constructions' = Constructions(llm, g)
    /\ calls' = calls + 1
    /\ UNCHANGED environ
    /\ ProxyFrame

\* the process environment gains an API key that os.getenv will find
SetEnviron(name) ==
    /\ name \notin environ
    /\ environ' = environ \cup {name}
    /\ UNCHANGED <<agents, got, constructions, calls>>
    /\ ProxyFrame

InitProxy ==
    /\ InitAgent(ConcConfigs, {<<>>})
    /\ threads = [t \in Threads |-> IdleThread]
    /\ api_key = "sk"
    /\ environ \in SUBSET CredentialVars
    /\ constructed = "ok"
    /\ llm_selected \in LlmSelections
    /\ agents = EmptyAgents
    /\ generated = NoGenerate
    /\ got = NoGot
    /\ constructions = NoConstructions

NextProxy ==
    \/ \E body \in Bodies, run \in RunEnds : Generate(body, run)
    \/ \E llm \in LlmArguments : GetAgentCall(llm)
    \/ \E name \in CredentialVars : SetEnviron(name)

SpecProxy == InitProxy /\ [][NextProxy]_vars

\* --------------------------------------------------------------- claims
Invoking == inv'.n = inv.n + 1
SentStatuses == {"ok", "HTTPStatusError", "TransportError"}
NoFinalAnswer == \A i \in 1..Len(decisions) : decisions[i].kind # "FinalAnswer"
\* the one request an invoke_tool step sends, to endpoint e
SendsTo(e) == posts' = <<[endpoint |-> e, status |-> inv'.status]>>
\* the step is an invoke_tool call whose discovery is ensured and whose tool
\* is in the registry
InvokingKnown ==
    /\ Invoking
    /\ inv'.status # "DiscoveryError"
    /\ inv'.tool_name \in DOMAIN tool_registry'

\* C1: every run ends within max_iterations iterations and provider requests,
\* and (a failed catalog or provider request aside) it ends by returning a
\* final answer's text or the sentinel "Max iterations reached"
C1_RunEndsWithAnswerOrSentinel ==
    /\ iteration <= config.max_iterations
    /\ llm_requests <= config.max_iterations
    /\ (pc = "done" /\ outcome \notin {Raised("ProviderError"), Raised("DiscoveryError")})
          => \/ outcome = Returned(MaxIterationsReached)
             \/ \E i \in 1..Len(decisions) :
                  /\ decisions[i].kind = "FinalAnswer"
                  /\ outcome = Returned(Text(decisions[i].text))

\* C2: when the loop runs out of iterations and no response was a final
\* answer, run returns "Max iterations reached" and raises nothing
C2_ExhaustedReturnsSentinel ==
    [][(pc = "loop" /\ iteration >= config.max_iterations /\ pc' = "done"
          /\ NoFinalAnswer)
         => outcome' = Returned(MaxIterationsReached)]_vars

\* C3: the iteration that receives a final answer returns its text at once,
\* with no further provider request and no tool invocation
C3_FinalAnswerReturnsImmediately ==
    [][(pc = "handle" /\ Decision(response).kind = "FinalAnswer")
         => /\ pc' = "done"
            /\ outcome' = Returned(Text(Decision(response).text))
            /\ llm_requests' = llm_requests
            /\ posts' = posts
            /\ inv' = inv]_vars

\* C4: a tool invocation of run that fails (HTTP error status, transport
\* failure, unknown tool, failed lazy discovery) appends exactly one user-role
\* failure message and goes on with the loop; run neither raises nor returns
\* in that step
C4_ToolFailureRecovered ==
    [][(Invoking /\ inv'.status # "ok")
         => /\ messages' = Append(messages, ToolFailedMessage(inv'.status))
            /\ messages'[Len(messages')].role = "user"
            /\ pc' = "loop"
            /\ outcome' = NoOutcome
            /\ iteration' = iteration]_vars

C4_Witness ==
    /\ pc = "loop"
    /\ config.provider = ANTHROPIC
    /\ iteration = 1
    /\ inv.status = "TransportError"
    /\ posts # <<>>
    /\ messages = <<UserMessage("u1", "get car details"),
                    ToolFailedMessage("TransportError")>>

\* C5: a provider request that fails ends the run with the error raised to
\* the caller: no message is appended, and the run makes no further provider
\* request and no tool invocation
C5_ProviderFailurePropagates ==
    [][/\ (llm_requests' = llm_requests + 1 /\ pc' # "handle")
            => /\ pc' = "done"
               /\ outcome' = Raised("ProviderError")
               /\ messages' = messages
               /\ posts' = posts
               /\ inv' = inv
       /\ (pc = "done" /\ outcome = Raised("ProviderError") /\ calls' = calls)
            => UNCHANGED <<llm_requests, posts, inv, messages, outcome, pc>>]_vars

C5_Witness ==
    /\ pc = "done"
    /\ outcome = Raised("ProviderError")
    /\ llm_requests = 2
    /\ Len(messages) = 3
    /\ Len(posts) = 1

\* C6: a tool call on a proxy-only tool that succeeds, followed by a final
\* answer, makes run return that answer after exactly two iterations and
\* exactly one tool invocation
C6_EndToEndScenario ==
    (/\ Len(decisions) = 2
     /\ pc # "handle"
     /\ decisions[1] = ToolCall("lookup_user_data")
     /\ "lookup_user_data" \in DOMAIN tool_registry
     /\ tool_registry["lookup_user_data"].direct_endpoint = NoEndpoint
     /\ posts # <<>>
     /\ posts[1] = [endpoint |-> ProxyEndpoint("lookup_user_data"), status |-> "ok"]
     /\ decisions[2].kind = "FinalAnswer")
      => /\ pc = "done"
         /\ outcome = Returned(Text(decisions[2].text))
         /\ iteration = 2
         /\ llm_requests = 2
         /\ Len(posts) = 1

\* C7: invoke_tool on a tool of force_proxy_tools posts to the tool's proxy
\* endpoint, whatever the override and the default, direct endpoint or not
C7_ForceProxy ==
    [][(InvokingKnown /\ inv'.tool_name \in config.force_proxy_tools)
         => SendsTo(tool_registry'[inv'.tool_name].proxy_endpoint)]_vars

C7_Witness ==
    /\ inv.tool_name = "direct_tool"
    /\ "direct_tool" \in config.force_proxy_tools
    /\ inv.use_direct = "True"
    /\ "direct_tool" \in DOMAIN tool_registry
    /\ tool_registry["direct_tool"].direct_endpoint # NoEndpoint
    /\ posts = <<[endpoint |-> ProxyEndpoint("direct_tool"), status |-> "ok"]>>

\* the preference invoke_tool i ends up with: the override if supplied,
\* else the config default, and never direct for a force-proxy tool
PrefersDirect(i) ==
    /\ i.use_direct = "True" \/ (i.use_direct = "None" /\ config.use_direct_tool_calls)
    /\ i.tool_name \notin config.force_proxy_tools

\* C8: with the preference being direct, invoke_tool on a registered tool
\* without a direct endpoint posts to the proxy endpoint with a warning; the
\* call fails only if that request does
C8_FallbackToProxy ==
    [][(/\ InvokingKnown
        /\ tool_registry'[inv'.tool_name].direct_endpoint = NoEndpoint
        /\ PrefersDirect(inv'))
         => /\ SendsTo(tool_registry'[inv'.tool_name].proxy_endpoint)
            /\ inv'.warned
            /\ inv'.status \in SentStatuses
            /\ outcome' = IF inv'.status = "ok"
                          THEN Returned(ToolResult(inv'.tool_name))
                          ELSE Raised(inv'.status)]_vars

C8_Witness ==
    /\ inv.tool_name = "lookup_user_data"
    /\ inv.use_direct = "True"
    /\ inv.warned
    /\ outcome = Returned(ToolResult("lookup_user_data"))
    /\ posts = <<[endpoint |-> ProxyEndpoint("lookup_user_data"), status |-> "ok"]>>

\* C9: outside force_proxy_tools, invoke_tool posts to the direct endpoint
\* exactly when the preference (the override if supplied, an explicit False
\* included, else the config default) is direct and a direct endpoint is
\* registered, and to the proxy endpoint otherwise
C9_EndpointSelection ==
    [][(InvokingKnown /\ inv'.tool_name \notin config.force_proxy_tools)
         => LET tool_info == tool_registry'[inv'.tool_name]
                prefer == IF inv'.use_direct = "None"
                          THEN config.use_direct_tool_calls
                          ELSE inv'.use_direct = "True"
            IN SendsTo(IF prefer /\ tool_info.direct_endpoint # NoEndpoint
                       THEN tool_info.direct_endpoint
                       ELSE tool_info.proxy_endpoint)]_vars

C9_Witness ==
    /\ inv.tool_name = "direct_tool"
    /\ inv.use_direct = "False"
    /\ config.use_direct_tool_calls
    /\ "direct_tool" \notin config.force_proxy_tools
    /\ posts = <<[endpoint |-> ProxyEndpoint("direct_tool"), status |-> "ok"]>>

\* C10: invoke_tool on a name that the registry lacks once discovery is
\* ensured raises the unknown-tool error, posts nothing, and leaves an
\* already discovered registry as it was
C10_UnknownTool ==
    [][(/\ Invoking
        /\ inv'.status # "DiscoveryError"
        /\ inv'.tool_name \notin DOMAIN tool_registry')
         => /\ inv'.status = "UnknownTool"
            /\ outcome' = Raised("UnknownTool")
            /\ inv'.endpoint = NoEndpoint
            /\ posts' = <<>>
            /\ tools_discovered'
            /\ tools_discovered => UNCHANGED agentVars]_vars

C10_Witness ==
    /\ inv.n = 2
    /\ inv.tool_name = "ghost"
    /\ inv.status = "UnknownTool"
    /\ outcome = Raised("UnknownTool")
    /\ posts = <<>>
    /\ tools_discovered
    /\ DOMAIN tool_registry = {"lookup_user_data", "direct_tool"}

\* a step that is a whole discover_tools call made by a caller
Discovering == calls' = calls + 1 /\ inv' = inv /\ pc' = "done"

\* C11: once discover_tools has succeeded, no later call issues a catalog
\* GET or changes the cached tool list and registry, and a later
\* discover_tools returns the cached tool list
C11_DiscoveryCached ==
    [][/\ tools_discovered => (gets' = gets /\ UNCHANGED agentVars)
       /\ (Discovering /\ tools_discovered)
            => outcome' = Returned(<<"tools", tools>>)]_vars

C11_Witness ==
    /\ calls = 2
    /\ inv.n = 0
    /\ gets = 1
    /\ tools_discovered
    /\ catalog = <<ProxyOnly, WithDirect>>
    /\ outcome = Returned(<<"tools", catalog>>)

\* C12: a discover_tools whose catalog GET fails raises, leaves the agent
\* undiscovered with its tool list and registry as they were, and the next
\* discover_tools issues a new GET
C12_FailedDiscoveryNotCached ==
    [][/\ (Discovering /\ outcome' = Raised("HTTPError"))
            => /\ gets' = gets + 1
               /\ ~tools_discovered'
               /\ UNCHANGED <<tools, tool_registry>>
       /\ (Discovering /\ outcome = Raised("HTTPError"))
            => gets' = gets + 1]_vars

C12_Witness ==
    /\ calls = 2
    /\ outcome = Raised("HTTPError")
    /\ gets = 2
    /\ ~tools_discovered
    /\ tools = <<>>
    /\ tool_registry = EmptyRegistry

\* the map discover_tools builds from the catalog: one entry per named
\* descriptor, the last descriptor of a name winning
CatalogMap ==
    LET names == {catalog[k].name : k \in DOMAIN catalog} \ {""}
        last(n) == CHOOSE k \in DOMAIN catalog :
                      /\ catalog[k].name = n
                      /\ \A j \in DOMAIN catalog : catalog[j].name = n => j <= k
    IN [n \in names |-> [direct_endpoint |-> catalog[last(n)].direct_endpoint,
                         proxy_endpoint |-> ProxyEndpoint(n)]]
AllDone == \A t \in Threads : threads[t].pc = "done"
NoneFailed == \A t \in Threads : threads[t].pc # "failed"

\* C13: with callers running discover_tools and run concurrently on one
\* agent, every registry lookup of invoke_tool observes the complete map
\* built from the catalog, and once all callers have finished without a
\* failed discovery the registry is that map and the agent is discovered
C13_ConcurrentDiscoverySafe ==
    /\ \A t \in Threads : threads[t].looked => threads[t].seen = CatalogMap
    /\ AllDone => /\ tool_registry = CatalogMap
                  /\ tools = catalog
                  /\ tools_discovered

C13_Witness ==
    /\ AllDone
    /\ gets = 2
    /\ \A t \in Threads : threads[t].wrote
    /\ \E t \in Threads : threads[t].looked
    /\ catalog = <<ProxyOnly, WithDirect>>

\* C14: as long as no discovery attempt fails, one agent fetches the catalog
\* at most once and stores the discovery cache at most once, concurrent
\* callers included
C14_DiscoveredAtMostOnce ==
    NoneFailed => /\ gets <= 1
                  /\ Cardinality({t \in Threads : threads[t].wrote}) <= 1

\* index of the first block of type t in the content being handled
IsFirst(i, t) ==
    /\ i \in 1..Len(response.content)
    /\ response.content[i].type = t
    /\ \A j \in 1..(i - 1) : response.content[j].type # t

\* C15: handling an Anthropic response, stop reason "tool_use" invokes the
\* tool of the first tool-use block and no other; "end_turn" returns the text
\* of the first text block; any other stop reason invokes no tool, returns
\* nothing and appends nothing
C15_AnthropicDecision ==
    [][(pc = "handle" /\ config.provider = ANTHROPIC) =>
         /\ response.stop_reason = "tool_use"
              => \A i \in 1..Len(response.content) : IsFirst(i, "tool_use") =>
                   /\ Invoking
                   /\ inv'.tool_name = response.content[i].name
                   /\ Len(posts') <= Len(posts) + 1
                   /\ pc' = "loop"
                   /\ outcome' = outcome
         /\ response.stop_reason = "end_turn"
              => \A i \in 1..Len(response.content) : IsFirst(i, "text") =>
                   /\ pc' = "done"
                   /\ outcome' = Returned(Text(response.content[i].text))
                   /\ inv' = inv
                   /\ posts' = posts
         /\ response.stop_reason \notin {"tool_use", "end_turn"}
              => /\ pc' = "loop"
                 /\ UNCHANGED <<inv, posts, outcome, messages>>]_vars

C15_Witness ==
    /\ config.provider = ANTHROPIC
    /\ pc = "loop"
    /\ response = Message("tool_use", <<ToolUseBlock("lookup_user_data", "id1"),
                                        ToolUseBlock("direct_tool", "id2")>>)
    /\ inv.n = 1
    /\ inv.tool_name = "lookup_user_data"
    /\ Len(posts) = 1

\* C16: handling an OpenAI response, only the first output item counts: a
\* function call invokes that tool (its arguments a mapping or a parseable
\* JSON string), and any other item ends the run returning the item's text
C16_OpenAIDecision ==
    [][(pc = "handle" /\ config.provider = OPENAI /\ response.output # <<>>) =>
         LET first == response.output[1] IN
         IF first.type = "function"
         THEN first.arguments \in {"dict", "json"}
                => /\ Invoking
                   /\ inv'.tool_name = first.name
                   /\ pc' = "loop"
         ELSE /\ pc' = "done"
              /\ outcome' = Returned(Text(first.text))
              /\ inv' = inv]_vars

\* C17: a run with the Ollama provider (a budget of at least one iteration,
\* discovery succeeded) issues one provider request, a second one exactly
\* after a tool call whose invocation succeeded, and ends by returning the
\* provider's content unless a provider request failed
C17_OllamaRun ==
    (/\ config.provider = OLLAMA
     /\ config.max_iterations >= 1
     /\ pc = "done"
     /\ outcome # Raised("DiscoveryError"))
      => /\ llm_requests \in {1, 2}
         /\ llm_requests = 2 => (Len(posts) = 1 /\ posts[1].status = "ok")
         /\ outcome.kind = "returned" \/ outcome = Raised("ProviderError")

\* C18: MCPAgent(config) for Anthropic or OpenAI with no key in the config
\* and none in the environment, or for an unknown provider, raises ValueError
\* and otherwise succeeds; the constructor sends nothing, and no call is made
\* and nothing is sent on an agent that was not constructed
C18_ConstructorRejects ==
    [][/\ (constructed = "new" /\ constructed' # "new")
            => /\ constructed' =
                    IF \/ config.provider \notin {"ollama", "anthropic", "openai"}
                       \/ /\ config.provider = "anthropic"
                          /\ api_key = ""
                          /\ "ANTHROPIC_API_KEY" \notin environ
                       \/ /\ config.provider = "openai"
                          /\ api_key = ""
                          /\ "OPENAI_API_KEY" \notin environ
                    THEN "ValueError" ELSE "ok"
               /\ UNCHANGED <<gets, posts, llm_requests, calls, pc>>
       /\ constructed # "ok"
            => UNCHANGED <<gets, posts, llm_requests, calls, pc>>]_vars

C18_Witness ==
    /\ constructed = "ValueError"
    /\ config.provider = ANTHROPIC
    /\ api_key = ""
    /\ environ = {"OPENAI_API_KEY"}
    /\ gets = 0
    /\ calls = 0
    /\ pc = "idle"

\* C19: POST /generate is served by the agent of the provider that the
\* request's llm field names (0 Ollama, 1 Anthropic, 2 OpenAI; 1 when the
\* field is absent), and llm_used of the response is that id
C19_GenerateUsesRequestedLlm ==
    generated.ran # "" =>
      /\ generated.ran = CASE generated.llm = 0 -> "ollama"
                            [] generated.llm = 1 -> "anthropic"
                            [] OTHER -> "openai"
      /\ generated.status = 200 => generated.llm_used = generated.llm

\* C20: a tool invocation of run that succeeds appends exactly two messages,
\* the assistant's tool-call message and then the tool-result message with
\* the call id and the JSON-encoded result, and the loop goes on
C20_ToolSuccessAppendsTwo ==
    [][(Invoking /\ inv'.status = "ok") =>
         LET n == Len(messages) IN
         /\ Len(messages') = n + 2
         /\ SubSeq(messages', 1, n) = messages
         /\ messages'[n + 1].role = "assistant"
         /\ messages'[n + 2].content[1] = "tool_result"
         /\ messages'[n + 2].content[3] = JsonDumps(ToolResult(inv'.tool_name))
         /\ pc' = "loop"
         /\ outcome' = outcome]_vars

\* C21: what run does and returns does not depend on verbose.  verbose is
\* read (other than to print) only where the loop is exhausted, so the claim
\* is that every such step is also a step of the run whose verbose argument
\* is the opposite one
C21_VerboseIndependent ==
    [][(pc = "loop" /\ iteration >= config.max_iterations /\ pc' = "done")
         => LoopElseWith(~verbose)]_vars

\* the Anthropic response being handled is neither a tool call (stop reason
\* "tool_use" with a tool-use block) nor a final answer ("end_turn" with a
\* text block)
UnrecognizedResponse ==
    /\ config.provider = ANTHROPIC
    /\ ~(/\ response.stop_reason = "tool_use"
         /\ \E i \in 1..Len(response.content) : response.content[i].type = "tool_use")
    /\ ~(/\ response.stop_reason = "end_turn"
         /\ \E i \in 1..Len(response.content) : response.content[i].type = "text")

\* C22: an iteration whose response is Unrecognized advances the iteration
\* counter by one (when the response is requested) and changes nothing else:
\* the history, the tool list, the registry and the discovery flag stay as
\* they were, no tool is invoked, nothing is sent or returned, and the loop
\* goes on
C22_UnrecognizedFrame ==
    [][/\ (pc = "loop" /\ pc' = "handle")
            => /\ iteration' = iteration + 1
               /\ UNCHANGED <<messages, agentVars, inv, posts, gets, outcome>>
       /\ (pc = "handle" /\ UnrecognizedResponse)
            => /\ pc' = "loop"
               /\ UNCHANGED <<iteration, messages, agentVars, inv, posts, gets,
                              outcome>>]_vars

C22_Witness ==
    /\ config.provider = ANTHROPIC
    /\ pc = "loop"
    /\ iteration = 1
    /\ response = Message("tool_use", <<TextBlock("A1")>>)
    /\ messages = <<UserMessage("u1", "get car details")>>
    /\ inv.n = 0
    /\ posts = <<>>
    /\ tools_discovered

\* C23: the history of a run starts as the single user message built from
\* the user id and the query, and every later step of that run keeps the
\* history so far as a prefix of the new one
C23_HistoryAppendOnly ==
    [][/\ (calls' = calls + 1 /\ pc' = "loop")
            => messages' = <<[role |-> "user",
                              content |-> <<"text", "u1", " ", "get car details">>]>>
       /\ (calls' = calls /\ pc # "idle")
            => /\ Len(messages') >= Len(messages)
               /\ SubSeq(messages', 1, Len(messages)) = messages]_vars

C23_Witness ==
    /\ pc = "loop"
    /\ Len(messages) = 3
    /\ messages[1] = UserMessage("u1", "get car details")
    /\ messages[2].role = "assistant"
    /\ messages[3] = ToolResultMessage("id1", ToolResult("lookup_user_data"))

\* C24: an invoke_tool call sends one request to one endpoint, or none when
\* it raises before sending; requests are sent by invoke_tool only; and run
\* calls invoke_tool only while handling a response that is a tool call, once,
\* for the tool that response names, so that a tool is tried again only when
\* a later response asks for it
C24_NoRetries ==
    [][/\ Invoking
            => /\ \/ /\ inv'.status \in SentStatuses
                     /\ inv'.endpoint # NoEndpoint
                     /\ posts' = Append(posts, [endpoint |-> inv'.endpoint,
                                                status |-> inv'.status])
                  \/ /\ inv'.status \notin SentStatuses
                     /\ posts' = posts
               /\ pc = "handle"
               /\ pc' = "loop"
               /\ Len(decisions) = iteration
               /\ decisions[iteration].kind = "ToolCall"
               /\ decisions[iteration].name = inv'.tool_name
       /\ (posts' # posts /\ calls' = calls) => Invoking]_vars

C24_Witness ==
    /\ pc = "loop"
    /\ iteration = 2
    /\ decisions = <<ToolCall("lookup_user_data"), ToolCall("lookup_user_data")>>
    /\ posts = <<[endpoint |-> ProxyEndpoint("lookup_user_data"), status |-> "TransportError"],
                 [endpoint |-> ProxyEndpoint("lookup_user_data"), status |-> "ok"]>>
    /\ inv.n = 2

\* C25: once the agent is discovered, no step of discover_tools,
\* invoke_tool, get_available_tools or run changes the tool list or any
\* registry entry, and the flag stays true
C25_RegistryImmutable ==
    [][tools_discovered
         => /\ tools_discovered'
            /\ tools' = tools
            /\ DOMAIN tool_registry' = DOMAIN tool_registry
            /\ \A n \in DOMAIN tool_registry : tool_registry'[n] = tool_registry[n]]_vars

C25_Witness ==
    /\ calls = 2
    /\ pc = "done"
    /\ tools_discovered
    /\ gets = 1
    /\ inv.n = 1
    /\ inv.status = "ok"
    /\ outcome = Returned(<<"dict", {"lookup_user_data", "direct_tool"}>>)

ToolNames == {tools[k].name : k \in DOMAIN tools} \ {""}

\* C27: while the agent is not discovered its tool list and registry are
\* empty, once it is discovered the registry's keys are the names in the
\* tool list, and the tool list is non-empty exactly when the flag is set
\* (the guard of run and the guard of invoke_tool agree)
C27_DiscoveryFieldsAgree ==
    /\ ~tools_discovered => (tools = <<>> /\ tool_registry = EmptyRegistry)
    /\ tools_discovered => DOMAIN tool_registry = ToolNames
    /\ (tools # <<>>) <=> tools_discovered

\* C28: every get_agent call (a direct one or the one POST /generate makes)
\* raises exactly for an id outside {0, 1, 2} or for an uncached Anthropic or
\* OpenAI agent whose key is not set, and then leaves the cache as it was;
\* for a cached id it returns the cached agent and constructs nothing; else
\* it constructs one agent and caches it under the id; so no id ever has more
\* than one agent constructed
C28_AgentCache ==
    [][calls' = calls + 1 =>
         LET llm == got'.llm
             cached == llm \in DOMAIN agents
             nokey == \/ llm = 1 /\ "ANTHROPIC_API_KEY" \notin environ
                      \/ llm = 2 /\ "OPENAI_API_KEY" \notin environ
         IN /\ got'.raised <=> (llm \notin {0, 1, 2} \/ (~cached /\ nokey))
            /\ got'.raised => (agents' = agents /\ constructions' = constructions)
            /\ cached => /\ agents' = agents
                         /\ constructions' = constructions
                         /\ ~got'.raised
                         /\ got'.provider = agents[llm]
            /\ (~got'.raised /\ ~cached)
                 => /\ DOMAIN agents' = DOMAIN agents \cup {llm}
                    /\ \A k \in DOMAIN agents : agents'[k] = agents[k]
                    /\ got'.provider = agents'[llm]
                    /\ constructions' =
                         [constructions EXCEPT ![llm] = constructions[llm] + 1]
            /\ \A k \in 0..2 : constructions'[k] <= 1]_vars

C28_Witness ==
    /\ calls = 2
    /\ got = [llm |-> 2, raised |-> FALSE, constructed |-> FALSE, provider |-> "openai"]
    /\ agents = [k \in {2} |-> "openai"]
    /\ constructions = [k \in 0..2 |-> IF k = 2 THEN 1 ELSE 0]

\* what the history of caller t may hold after its own first message
OwnToolMessages(t) ==
    { AssistantMessage(ResponseTo(t, TRUE).content),
      ToolResultMessage(ToolUseIdOf(t), ToolResult("direct_tool")) }
      \cup { ToolFailedMessage(e) :
                e \in {"UnknownTool", "HTTPStatusError", "TransportError"} }

\* C29: with several runs in flight on one agent, in every interleaving the
\* history of each run starts with that run's own user message, holds after
\* it only the tool-call, tool-result and failure messages of that run's own
\* iterations (at most two per iteration), and a value the run returns is
\* the text of the answer the provider gave to that run
C29_HistoryPrivate ==
    \A t \in Threads :
      LET th == threads[t] IN
      /\ th.messages # <<>> =>
            th.messages[1] = UserMessage(UserIdOf(t), "get car details")
      /\ \A i \in 2..Len(th.messages) : th.messages[i] \in OwnToolMessages(t)
      /\ Len(th.messages) <= 1 + 2 * th.n
      /\ th.result.kind = "returned" => th.result.value = Text(AnswerOf(t))

C29_Witness ==
    /\ threads[1].pc = "done" /\ Len(threads[1].messages) = 5
    /\ threads[2].pc = "done" /\ Len(threads[2].messages) = 1
    /\ threads[2].result = Returned(Text(AnswerOf(2)))
    /\ gets = 2
====
